---- MODULE Spec2Model ----
(***************************************************************************)
(* State-machine model of the WebXR interaction core:                      *)
(*   - InteractionManager (input events, per-tick update, raycast,         *)
(*     updateObjectStates) and the debounce utility,                       *)
(*   - the widgets' transition handlers (InteractiveButton, the            *)
(*     self-toggling ToggleSwitch, SimpleButton, the server-driven         *)
(*     ToggleSwitch, the DataCollectionButton panel),                      *)
(*   - the XR session handlers of InteractionManager and ThreeSceneManager.*)
(*   - ThreeSceneManager's status timers (demo intervals, startPolling,    *)
(*     button-state polling), dispose() and the panel registry.            *)
(* setTimeout callbacks are pending-timer counters; a timer may fire at    *)
(* any step after it was scheduled (JavaScript runs every handler to       *)
(* completion, so each handler is one atomic action).                      *)
(***************************************************************************)
EXTENDS Integers, Sequences, FiniteSets, TLC

\* ------------------------------------------------------------- bounds
\* Largest intersection distance a ray reports (0 stands for "no intersection").
MaxDist == 2
\* Largest number of settle-delay timers pending on one widget.
MaxTimers == 2
\* Largest number of callback executions counted inside one gesture.
MaxGesture == 2
\* Largest number of invocations of the generic debounced wrapper.
MaxCalls == 5
\* Largest number of panel containers in the scene.
MaxPanels == 3

\* ------------------------------------------------------------- objects
\* button1: InteractiveButton made by createCustomButton, its callback is
\*   debounce(() => button1.updateButtonState(true), 500).
\* teleButton: InteractiveButton whose callback only logs.
\* selfToggle: the ToggleSwitch that flips its own value (isToggling guard).
\* simpleButton: SimpleButton whose callback only logs.
\* toggleSwitch: the server-driven ToggleSwitch made by createCustomToggle, its
\*   callback is debounce(() => toggleSwitch.updateFromServer(-2), 300).
\* dcPanel: the outer panel of the DataCollectionButton (no-op handler).
InteractiveButtons == {"button1", "teleButton"}
SelfToggles == {"selfToggle"}
SimpleButtons == {"simpleButton"}
ServerToggles == {"toggleSwitch"}
Panels == {"dcPanel"}
Objects == InteractiveButtons \cup SelfToggles \cup SimpleButtons \cup ServerToggles \cup Panels

\* The callbacks wrapped by debounce(); "generic" is a wrapper around an
\* arbitrary function, used to study the utility on its own.
Wrappers == {"button1", "toggleSwitch", "generic"}

\* Arguments handed to the generic wrapped function; it throws on "bad".
Args == {"a", "b", "bad"}

\* isUI is set by every widget constructor.
IsUI(o) == o \in Objects

\* Backend codes handed to updateFromServer; 3 is a code the switch ignores.
ServerCodes == {-2, -1, 0, 1, 2, 3}

Visuals == {"grip0", "controller0", "grip1", "controller1"}

NoObject == "null"

\* No update() ran in the last step.
NoTick == [ray |-> "none", tests |-> 0, hit |-> [object |-> NoObject, distance |-> 0],
           log |-> <<>>, steps |-> <<>>, laidOut |-> <<>>, clicks |-> 0, fires |-> 0]

VARIABLES
  objsToTest,     \* InteractionManager.objsToTest: sequence of registered objects
  selectState,    \* InteractionManager.selectState: the engagement flag
  mouse,          \* InteractionManager.mouse: <<>> is (NaN, NaN), <<r>> the ray r
  presenting,     \* renderer.xr.isPresenting
  visible,        \* .visible of the two controllers and the two grips
  ctrlRay,        \* the ray of controller 0 and 1 (from its matrixWorld)
  reticle,        \* controller.point.position of controller 0 and 1 (distance along the ray)
  attached,       \* environment: the physical controllers currently connected
  xr,             \* "idle", or "starting" between the two sessionstart listeners
  endRequested,   \* session.end() was called and the session has not ended yet
  panels,         \* ThreeSceneManager.panels: key -> panel (0: no entry)
  scene,          \* the panel containers that are children of the scene
  widgets,        \* per object: __currentState, visual attributes, pending settle timers, ...
  ready,          \* debounce: the closure variable ready, per wrapper
  cooldown,       \* debounce: pending cooldown timers, per wrapper
  last,           \* history: the operation of the last step
  gesture,        \* history: object of the continuous selection gesture, or NoObject
  gestureClicks,  \* history: callback executions in the current gesture
  gestureFires,   \* history: executions of the bound (debounced) action in the gesture
  startCount,     \* history: controllers connected when the running session started (-1: none)
  db,             \* history: invocations and executions of the generic debounced function
  absent,         \* environment: the pointer is outside the viewport / no finger touches
  tick,           \* history: what the update() of the last step did (NoTick after any other step)
  disposed,       \* ThreeSceneManager.dispose() has returned
  demoIntervals,  \* the live setInterval timers of initScene (their handles are not kept)
  polling,        \* startPolling's closure: pollTimer, isCollecting, the live setTimeout timers
  buttonStatePollingTimer, \* ThreeSceneManager.buttonStatePollingTimer (0: null)
  intervals,      \* the live setInterval timers created by startButtonStatePolling
  dcButton,       \* DataCollectionButton: value, pending 100 ms timers, last callback argument
  panelText,      \* per panel container: the text content it shows
  ret,            \* history: the return value of the last panel-registry call
  lastCode,       \* history: the case of updateFromServer's switch that matched last (-2, -1, 0)
  engage          \* environment and history: the sources held down, the last engagement event

inputVars == <<selectState, mouse, absent>>
xrVars == <<presenting, visible, ctrlRay, reticle, attached, xr, endRequested, startCount>>
panelVars == <<panels, scene>>
widgetVars == <<widgets, ready, cooldown>>
gestureVars == <<gesture, gestureClicks, gestureFires>>
serviceVars == <<disposed, demoIntervals, polling, buttonStatePollingTimer, intervals, dcButton,
                 panelText, ret>>

vars == <<objsToTest, inputVars, xrVars, panelVars, widgetVars, gestureVars, last, db, tick,
          serviceVars, lastCode, engage>>

Range(s) == {s[i] : i \in 1..Len(s)}

\* A ray is known by the distance of its nearest intersection with each
\* registered object's descendant geometry (0: the ray misses the object).
RaysOf(reg) == [Range(reg) -> 0..MaxDist]

\* ------------------------------------------------------------- widgets
\* Widget state right after the constructors (and initScene) have run.
WidgetInit(o) ==
  [currentState |-> IF o \in InteractiveButtons \cup SelfToggles THEN "idle" ELSE "undefined",
   look |-> "idle",
   timers |-> 0,
   isToggling |-> FALSE,
   value |-> (o \in ServerToggles),
   isLoading |-> FALSE,
   indicator |-> FALSE]

\* The part of the state the handlers of one tick read and write; clicks and
\* fires count the callback and bound-action executions of the handler chain.
World ==
  [widgets |-> widgets, ready |-> ready, cooldown |-> cooldown,
   clicks |-> 0, fires |-> 0, thrown |-> FALSE, lastArg |-> "none", log |-> <<>>,
   code |-> lastCode, dc |-> dcButton]

\* Mutant of UpdateButtonStateW: the colours change, __currentState is not written.
UpdateButtonStateColoursOnly(W, o, isActive) ==
  [W EXCEPT !.widgets[o].look = IF isActive THEN "active" ELSE "idle"]

\* InteractiveButton.updateButtonState(isActive)
UpdateButtonStateW(W, o, isActive) ==
  [W EXCEPT !.widgets[o].look = IF isActive THEN "active" ELSE "idle",
            !.widgets[o].currentState = IF isActive THEN "active" ELSE "idle"]

\* ToggleSwitch.updateKnobPosition(): the loading ring is shown while isLoading
UpdateKnobPosition(w) ==
  [w EXCEPT !.indicator = w.isLoading]

\* Mutant of UpdateFromServerW: -1 also clears the value.
UpdateFromServerLoadingClearsValue(W, o, code) ==
  LET W1 == CASE code = -2 -> [W EXCEPT !.widgets[o].isLoading = FALSE, !.widgets[o].value = FALSE,
                                        !.code = code]
              [] code = -1 -> [W EXCEPT !.widgets[o].isLoading = TRUE, !.widgets[o].value = FALSE,
                                        !.code = code]
              [] code \in {0, 1, 2} -> [W EXCEPT !.widgets[o].isLoading = FALSE,
                                                 !.widgets[o].value = TRUE, !.code = 0]
              [] OTHER -> W
  IN [W1 EXCEPT !.widgets[o] = UpdateKnobPosition(@)]

\* ToggleSwitch.updateFromServer(state) of the server-driven switch; code
\* records the case that matched last (0 names the group case 0: case 1: case 2:).
UpdateFromServerW(W, o, code) ==
  LET W1 == CASE code = -2 -> [W EXCEPT !.widgets[o].isLoading = FALSE, !.widgets[o].value = FALSE,
                                        !.code = code]
              [] code = -1 -> [W EXCEPT !.widgets[o].isLoading = TRUE, !.code = code]
              [] code \in {0, 1, 2} -> [W EXCEPT !.widgets[o].isLoading = FALSE,
                                                 !.widgets[o].value = TRUE, !.code = 0]
              [] OTHER -> W
  IN [W1 EXCEPT !.widgets[o] = UpdateKnobPosition(@)]

\* The function wrapped by debounce() for each wrapper.
WrappedFn(W, wr, arg) ==
  LET W1 == [W EXCEPT !.fires = @ + 1] IN
  CASE wr = "button1" -> UpdateButtonStateW(W1, "button1", TRUE)
    [] wr = "toggleSwitch" -> UpdateFromServerW(W1, "toggleSwitch", -2)
    [] OTHER -> IF arg = "bad" THEN [W1 EXCEPT !.thrown = TRUE]
                ELSE [W1 EXCEPT !.lastArg = arg]

\* Mutant of DebounceInvoke: the guard is never closed (ready = false is missing).
DebounceInvokeNeverCloses(W, wr, arg) ==
  IF ~W.ready[wr] THEN W
  ELSE LET W2 == WrappedFn(W, wr, arg)
       IN [W2 EXCEPT !.cooldown[wr] = @ + 1]

\* Mutant of DebounceInvoke: the timer is scheduled after fn returns (no finally),
\* so a throwing fn leaves the guard closed with no timer pending.
DebounceInvokeNoFinally(W, wr, arg) ==
  IF ~W.ready[wr] THEN W
  ELSE LET W1 == [W EXCEPT !.ready[wr] = FALSE]
           W2 == WrappedFn(W1, wr, arg)
       IN IF W2.thrown THEN W2 ELSE [W2 EXCEPT !.cooldown[wr] = @ + 1]

\* The wrapper returned by debounce(fn, cooldownMs): drop while not ready,
\* else close the guard, run fn, and (finally) schedule the cooldown timer.
DebounceInvoke(W, wr, arg) ==
  IF ~W.ready[wr] THEN W
  ELSE LET W1 == [W EXCEPT !.ready[wr] = FALSE]
           W2 == WrappedFn(W1, wr, arg)
       IN [W2 EXCEPT !.cooldown[wr] = @ + 1]

\* Mutant of CooldownFire: a trailing-edge replay of the wrapped function.
CooldownFireReplays(W, wr) ==
  WrappedFn([W EXCEPT !.ready[wr] = TRUE, !.cooldown[wr] = @ - 1], wr, "a")

\* The callback debounce() hands to setTimeout: () => (ready = true)
CooldownFire(W, wr) ==
  [W EXCEPT !.ready[wr] = TRUE, !.cooldown[wr] = @ - 1]

\* this.callback() of a widget
Callback(W, o) ==
  LET W1 == [W EXCEPT !.clicks = @ + 1] IN
  IF o \in Wrappers THEN DebounceInvoke(W1, o, "none")
  ELSE [W1 EXCEPT !.fires = @ + 1]

\* InteractiveButton.handleStateChange(state)
InteractiveButtonHandle(W, o, state) ==
  LET currentState == W.widgets[o].currentState IN
  IF currentState = "active" /\ state = "idle" THEN W
  ELSE CASE state = "hovered" ->
              [W EXCEPT !.widgets[o].look = "hovered", !.widgets[o].currentState = "hovered"]
         [] state = "selected" ->
              LET W1 == [W EXCEPT !.widgets[o].look = "selected",
                                  !.widgets[o].currentState = "selected"]
                  W2 == Callback(W1, o)
              IN [W2 EXCEPT !.widgets[o].timers = @ + 1]
         [] OTHER ->
              IF currentState # "active"
              THEN [W EXCEPT !.widgets[o].look = "idle", !.widgets[o].currentState = "idle"]
              ELSE W

\* Mutant of InteractiveButtonSettle: the colours are restored, __currentState is not.
InteractiveButtonSettleKeepsState(w) ==
  [w EXCEPT !.look = "idle"]

\* The 100 ms callback scheduled by InteractiveButton.handleStateChange("selected")
InteractiveButtonSettle(w) ==
  [w EXCEPT !.look = "idle", !.currentState = "idle"]

\* Mutant of SelfToggleHandle: the isToggling test before the switch is missing.
SelfToggleHandleUnguarded(W, o, state) ==
  CASE state = "hovered" ->
         [W EXCEPT !.widgets[o].look = "hovered", !.widgets[o].currentState = "hovered"]
    [] state = "selected" ->
         LET W1 == [W EXCEPT !.widgets[o].isToggling = TRUE,
                             !.widgets[o].currentState = "selected",
                             !.widgets[o].value = ~@]
             W2 == Callback(W1, o)
         IN [W2 EXCEPT !.widgets[o].timers = @ + 1]
    [] OTHER ->
         IF ~W.widgets[o].isToggling
         THEN [W EXCEPT !.widgets[o].look = "idle", !.widgets[o].currentState = "idle"]
         ELSE W

\* ToggleSwitch.handleStateChange(state) of the self-toggling switch;
\* toggle() flips the value and calls the callback.
SelfToggleHandle(W, o, state) ==
  IF W.widgets[o].isToggling /\ state = "selected" THEN W
  ELSE CASE state = "hovered" ->
              [W EXCEPT !.widgets[o].look = "hovered", !.widgets[o].currentState = "hovered"]
         [] state = "selected" ->
              LET W1 == [W EXCEPT !.widgets[o].isToggling = TRUE,
                                  !.widgets[o].currentState = "selected",
                                  !.widgets[o].value = ~@]
                  W2 == Callback(W1, o)
              IN [W2 EXCEPT !.widgets[o].timers = @ + 1]
         [] OTHER ->
              IF ~W.widgets[o].isToggling
              THEN [W EXCEPT !.widgets[o].look = "idle", !.widgets[o].currentState = "idle"]
              ELSE W

\* The 200 ms callback scheduled by ToggleSwitch.handleStateChange("selected")
SelfToggleSettle(w) ==
  [w EXCEPT !.isToggling = FALSE, !.currentState = "idle", !.look = "idle"]

\* SimpleButton.handleStateChange(state): colours only, no tracked state
SimpleButtonHandle(W, o, state) ==
  CASE state = "hovered" -> [W EXCEPT !.widgets[o].look = "hovered"]
    [] state = "selected" ->
         LET W1 == [W EXCEPT !.widgets[o].look = "selected"]
             W2 == Callback(W1, o)
         IN [W2 EXCEPT !.widgets[o].timers = @ + 1]
    [] OTHER -> [W EXCEPT !.widgets[o].look = "idle"]

\* The 150 ms callback scheduled by SimpleButton.handleStateChange("selected")
SimpleButtonSettle(w) ==
  [w EXCEPT !.look = "idle"]

\* Mutant of ServerToggleHandle: the click flips the value before the callback.
ServerToggleHandleFlips(W, o, state) ==
  IF state = "selected" THEN Callback([W EXCEPT !.widgets[o].value = ~@], o) ELSE W

\* block.setState of the server-driven ToggleSwitch: handleClick() on "selected"
ServerToggleHandle(W, o, state) ==
  IF state = "selected" THEN Callback(W, o) ELSE W

\* DataCollectionButton.handleButtonStateChange(state) of the inner button
DcHandleButtonStateChange(d, state) ==
  CASE state = "hovered" -> [d EXCEPT !.look = "hovered", !.called = "none"]
    [] state = "selected" -> [d EXCEPT !.look = "selected", !.timers = @ + 1, !.called = "none"]
    [] OTHER -> [d EXCEPT !.look = "value", !.called = "none"]

\* Mutant of PanelSetState: the panel hands the state to the inner button.
PanelSetStateForwards(W, o, state) ==
  [W EXCEPT !.dc = DcHandleButtonStateChange(@, state)]

\* DataCollectionButton: panel.setState = (_: string) => {} (only the panel is
\* registered by createDataCollectionButton)
PanelSetState(W, o, state) ==
  W

\* obj.setState?.(state); log records the call
SetState(W, o, state) ==
  LET W1 == [W EXCEPT !.log = Append(@, [obj |-> o, state |-> state])] IN
  CASE o \in InteractiveButtons -> InteractiveButtonHandle(W1, o, state)
    [] o \in SelfToggles -> SelfToggleHandle(W1, o, state)
    [] o \in SimpleButtons -> SimpleButtonHandle(W1, o, state)
    [] o \in ServerToggles -> ServerToggleHandle(W1, o, state)
    [] o \in Panels -> PanelSetState(W1, o, state)
    [] OTHER -> W1

\* The settle-delay callback of a widget
Settle(o, w) ==
  CASE o \in InteractiveButtons -> InteractiveButtonSettle(w)
    [] o \in SelfToggles -> SelfToggleSettle(w)
    [] OTHER -> SimpleButtonSettle(w)

\* ------------------------------------------------------------- hit test
NoHit == [object |-> NoObject, distance |-> 0]

\* A mesh below a registered object (the object three.js names in an intersection).
DescendantMesh == "descendantMesh"

\* raycaster.intersectObject(obj, true): the intersections with the descendant
\* geometry of obj, nearest first (a block is entered and left by the ray).
IntersectObject(obj, ray) ==
  IF ray[obj] = 0 THEN <<>>
  ELSE <<[object |-> DescendantMesh, distance |-> ray[obj]],
         [object |-> DescendantMesh, distance |-> ray[obj] + 1]>>

\* Mutant of RaycastReduce: the first intersected object wins, distances are not compared.
RECURSIVE RaycastReduceFirstHit(_, _, _, _)
RaycastReduceFirstHit(reg, ray, i, closest) ==
  IF i > Len(reg) THEN closest
  ELSE LET obj == reg[i]
           intersections == IntersectObject(obj, ray)
       IN IF intersections = <<>> THEN RaycastReduceFirstHit(reg, ray, i + 1, closest)
          ELSE IF closest = NoHit
               THEN RaycastReduceFirstHit(reg, ray, i + 1, [intersections[1] EXCEPT !.object = obj])
               ELSE RaycastReduceFirstHit(reg, ray, i + 1, closest)

\* Mutant of RaycastReduce: result.object is left as three.js reported it.
RECURSIVE RaycastReduceKeepsMesh(_, _, _, _)
RaycastReduceKeepsMesh(reg, ray, i, closest) ==
  IF i > Len(reg) THEN closest
  ELSE LET obj == reg[i]
           intersections == IntersectObject(obj, ray)
       IN IF intersections = <<>> THEN RaycastReduceKeepsMesh(reg, ray, i + 1, closest)
          ELSE IF closest = NoHit \/ intersections[1].distance < closest.distance
               THEN RaycastReduceKeepsMesh(reg, ray, i + 1, intersections[1])
               ELSE RaycastReduceKeepsMesh(reg, ray, i + 1, closest)

\* Mutant of RaycastReduce: objects without the isUI flag are skipped.
RECURSIVE RaycastReduceUIOnly(_, _, _, _)
RaycastReduceUIOnly(reg, ray, i, closest) ==
  IF i > Len(reg) THEN closest
  ELSE LET obj == reg[i]
           intersections == IF IsUI(obj) THEN IntersectObject(obj, ray) ELSE <<>>
       IN IF intersections = <<>> THEN RaycastReduceUIOnly(reg, ray, i + 1, closest)
          ELSE IF closest = NoHit \/ intersections[1].distance < closest.distance
               THEN RaycastReduceUIOnly(reg, ray, i + 1, [intersections[1] EXCEPT !.object = obj])
               ELSE RaycastReduceUIOnly(reg, ray, i + 1, closest)

\* InteractionManager.raycast(): reduce over objsToTest, keeping the first
\* intersection of an object when it is strictly nearer than the closest so far.
RECURSIVE RaycastReduce(_, _, _, _)
RaycastReduce(reg, ray, i, closest) ==
  IF i > Len(reg) THEN closest
  ELSE LET obj == reg[i]
           intersections == IntersectObject(obj, ray)
       IN IF intersections = <<>> THEN RaycastReduce(reg, ray, i + 1, closest)
          ELSE IF closest = NoHit \/ intersections[1].distance < closest.distance
               THEN RaycastReduce(reg, ray, i + 1, [intersections[1] EXCEPT !.object = obj])
               ELSE RaycastReduce(reg, ray, i + 1, closest)

Raycast(reg, ray) == RaycastReduce(reg, ray, 1, NoHit)

\* Source selection of InteractionManager.update(): the controller whose ray
\* produced the hit (0 or 1), "mouse", or "none"; and the intersection.
\* Mutant of Intersect: both controllers are tested and the nearer hit wins.
IntersectNearestOfBoth ==
  IF presenting
  THEN LET h0 == Raycast(objsToTest, ctrlRay[0])
           h1 == Raycast(objsToTest, ctrlRay[1])
       IN IF h0 # NoHit /\ (h1 = NoHit \/ h0.distance <= h1.distance)
          THEN [src |-> "c0", hit |-> h0, tests |-> 2, ray |-> "c0"]
          ELSE IF h1 # NoHit THEN [src |-> "c1", hit |-> h1, tests |-> 2, ray |-> "c1"]
               ELSE [src |-> "none", hit |-> NoHit, tests |-> 2, ray |-> "c1"]
  ELSE IF mouse # <<>>
       THEN [src |-> "mouse", hit |-> Raycast(objsToTest, mouse[1]), tests |-> 1, ray |-> "mouse"]
       ELSE [src |-> "none", hit |-> NoHit, tests |-> 0, ray |-> "none"]

\* Mutant of Intersect: outside a session the pointer ray is cast without the NaN test.
IntersectWithoutNaNTest ==
  IF presenting
  THEN LET h0 == Raycast(objsToTest, ctrlRay[0]) IN
       IF h0 # NoHit THEN [src |-> "c0", hit |-> h0, tests |-> 1, ray |-> "c0"]
       ELSE LET h1 == Raycast(objsToTest, ctrlRay[1]) IN
            IF h1 # NoHit THEN [src |-> "c1", hit |-> h1, tests |-> 2, ray |-> "c1"]
            ELSE [src |-> "none", hit |-> NoHit, tests |-> 2, ray |-> "c1"]
  ELSE [src |-> "mouse",
        hit |-> IF mouse # <<>> THEN Raycast(objsToTest, mouse[1]) ELSE NoHit,
        tests |-> 1, ray |-> "mouse"]

\* tests counts the raycast() calls, ray names the ray of the last one.
Intersect ==
  IF presenting
  THEN LET h0 == Raycast(objsToTest, ctrlRay[0]) IN
       IF h0 # NoHit THEN [src |-> "c0", hit |-> h0, tests |-> 1, ray |-> "c0"]
       ELSE LET h1 == Raycast(objsToTest, ctrlRay[1]) IN
            IF h1 # NoHit THEN [src |-> "c1", hit |-> h1, tests |-> 2, ray |-> "c1"]
            ELSE [src |-> "none", hit |-> NoHit, tests |-> 2, ray |-> "c1"]
  ELSE IF mouse # <<>>
       THEN [src |-> "mouse", hit |-> Raycast(objsToTest, mouse[1]), tests |-> 1, ray |-> "mouse"]
       ELSE [src |-> "none", hit |-> NoHit, tests |-> 0, ray |-> "none"]

\* InteractionManager.updateObjectStates(intersect): forEach over objsToTest
RECURSIVE UpdateObjectStates(_, _, _, _, _)
UpdateObjectStates(W, reg, i, hit, sel) ==
  IF i > Len(reg) THEN W
  ELSE LET obj == reg[i] IN
       IF ~IsUI(obj) THEN UpdateObjectStates(W, reg, i + 1, hit, sel)
       ELSE IF hit # NoHit /\ obj = hit.object
            THEN UpdateObjectStates(SetState(W, obj, IF sel THEN "selected" ELSE "hovered"),
                                    reg, i + 1, hit, sel)
            ELSE UpdateObjectStates(SetState(W, obj, "idle"), reg, i + 1, hit, sel)

\* ------------------------------------------------------------- XR session
\* renderer.xr.getController(i): the renderer creates the slot on demand and
\* returns its Group whether or not a physical controller is connected.
XrGetController(i) == [slot |-> i, isNull |-> FALSE]

\* VRControls.setupControllers(): push every non-null controller of index 0..1
RECURSIVE SetupControllers(_, _)
SetupControllers(i, acc) ==
  IF i > 1 THEN acc
  ELSE LET controller == XrGetController(i) IN
       IF controller.isNull THEN SetupControllers(i + 1, acc)
       ELSE SetupControllers(i + 1, Append(acc, controller.slot))

\* VRControls.controllers after construction
Controllers == SetupControllers(0, <<>>)

\* Mutant of GetControllerCount: the controllers connected right now are counted.
GetControllerCountAttached == Cardinality(attached)

\* InteractionManager.getControllerCount()
GetControllerCount == Len(Controllers)

\* setupScene(): hide the controllers until the XR session starts
HideOnSetup(vis) ==
  [vis EXCEPT !["grip0"] = FALSE, !["controller0"] = FALSE,
              !["grip1"] = FALSE, !["controller1"] = FALSE]

\* The sessionstart listener of InteractionManager
ShowOnSessionStart(vis) ==
  [vis EXCEPT !["grip0"] = TRUE, !["controller0"] = TRUE,
              !["grip1"] = TRUE, !["controller1"] = TRUE]

\* Mutant of HideOnSessionEnd: the second grip is forgotten.
HideOnSessionEndForgetsGrip(vis) ==
  [vis EXCEPT !["grip0"] = FALSE, !["controller0"] = FALSE, !["controller1"] = FALSE]

\* The sessionend listener of InteractionManager
HideOnSessionEnd(vis) ==
  [vis EXCEPT !["grip0"] = FALSE, !["controller0"] = FALSE,
              !["grip1"] = FALSE, !["controller1"] = FALSE]

\* The sessionstart listener of ThreeSceneManager decides to end the session
GatingEndsSession(cnt) == cnt < 2

PanelKeys == {"aaa"}

\* The container makeTextPanel creates: a panel not yet in the scene.
NewPanel(sc) == CHOOSE n \in 1..(MaxPanels + 1) : n \notin sc /\ \A m \in 1..(n - 1) : m \in sc

\* ThreeSceneManager.makeTextPanel(..., {key}): scene.add(container); panels.set(key, container)
MakeTextPanel(P, key) ==
  LET container == NewPanel(P.scene) IN
  [panels |-> [P.panels EXCEPT ![key] = container], scene |-> P.scene \cup {container}]

\* ------------------------------------------------------------- timers, polling
\* Largest number of live timers of one kind.
MaxLive == 2

\* setTimeout / setInterval return a handle that no live timer has.
NewTimer(live) == CHOOSE n \in 1..(MaxLive + 1) : n \notin live /\ \A m \in 1..(n - 1) : m \in live

\* The demo intervals of initScene drive button1 and toggleSwitch.
DemoIntervals == {"button1", "toggleSwitch"}

\* The codes the toggleSwitch interval draws from.
DemoStates == {-2, -1, 0, 1, 2}

\* ThreeSceneManager.registeredButtons after initScene: teleportButton -> teleButton
RegisteredButtons == {"teleButton"}

\* startPolling(): fetchData() arms the first poll timer.
\* cleaned is history: the returned cleanup function has been called.
StartPolling ==
  [pollTimer |-> NewTimer({}), isCollecting |-> FALSE, live |-> {NewTimer({})}, cleaned |-> FALSE]

\* new DataCollectionButton(label, {initialValue: false}, callback)
DataCollectionButtonInit ==
  [value |-> "off", look |-> "idle", timers |-> 0, called |-> "none"]

\* Nothing is held down and no engagement event has happened.
NoEngagement == [held |-> {}, by |-> "none", start |-> FALSE]

\* The timers, the DataCollectionButton and the panel texts after initScene.
ServiceInit ==
  /\ disposed = FALSE
  /\ demoIntervals = DemoIntervals
  /\ polling = StartPolling
  /\ buttonStatePollingTimer = 0
  /\ intervals = {}
  /\ dcButton = DataCollectionButtonInit
  /\ panelText = [n \in 1..(MaxPanels + 1) |-> "made"]
  /\ ret = "none"
  /\ lastCode = 0
  /\ engage = NoEngagement

\* ------------------------------------------------------------- actions
\* Registry contents studied: each is a sequence of addInteractiveObject calls.
Registries ==
  {<<"button1", "selfToggle">>, <<"simpleButton", "toggleSwitch">>}

MissAll(reg) == [o \in Range(reg) |-> 0]

DbInit ==
  [calls |-> 0, execs |-> 0, readyCalls |-> 0, dropped |-> 0, outside |-> 0,
   winCalls |-> 0, winExecs |-> 0, ran |-> FALSE, lastArg |-> "none", thrown |-> FALSE]

\* The state after new ThreeSceneManager(container) with registry reg.
InitCore(reg) ==
  /\ objsToTest = reg
  /\ selectState = FALSE
  /\ mouse = <<>>
  /\ presenting = FALSE
  /\ visible = HideOnSetup([v \in Visuals |-> TRUE])
  /\ ctrlRay = [c \in {0, 1} |-> MissAll(reg)]
  /\ reticle = [c \in {0, 1} |-> 0]
  /\ attached \in SUBSET {0, 1}
  /\ xr = "idle"
  /\ endRequested = FALSE
  /\ LET P == MakeTextPanel([panels |-> [k \in PanelKeys |-> 0], scene |-> {}], "aaa")
     IN panels = P.panels /\ scene = P.scene
  /\ widgets = [o \in Objects |-> WidgetInit(o)]
  /\ ready = [wr \in Wrappers |-> TRUE]
  /\ cooldown = [wr \in Wrappers |-> 0]
  /\ last = [op |-> "init", obj |-> NoObject]
  /\ gesture = NoObject
  /\ gestureClicks = 0
  /\ gestureFires = 0
  /\ startCount = -1
  /\ db = DbInit
  /\ absent = TRUE
  /\ tick = NoTick
  /\ ServiceInit

Init == \E reg \in Registries : InitCore(reg) /\ attached = {0, 1}

\* window "pointermove"
PointerMove(r) ==
  /\ mouse' = <<r>>
  /\ absent' = FALSE
  /\ last' = [op |-> "input", obj |-> NoObject]
  /\ tick' = NoTick
  /\ UNCHANGED <<serviceVars, lastCode, engage>>
  /\ UNCHANGED <<objsToTest, selectState, xrVars, panelVars, widgetVars, gestureVars, db>>

\* window "pointerdown"
PointerDownHandler ==
  /\ selectState' = TRUE
  /\ last' = [op |-> "input", obj |-> NoObject]
  /\ tick' = NoTick
  /\ UNCHANGED <<serviceVars, lastCode>>
  /\ UNCHANGED <<objsToTest, mouse, absent, xrVars, panelVars, widgetVars, gestureVars, db>>

\* PointerDown where the held sources are not followed
PointerDown == PointerDownHandler /\ UNCHANGED engage

\* window "pointerup"; releasing the engagement ends the gesture
PointerUpHandler ==
  /\ selectState' = FALSE
  /\ gesture' = NoObject /\ gestureClicks' = 0 /\ gestureFires' = 0
  /\ last' = [op |-> "input", obj |-> NoObject]
  /\ tick' = NoTick
  /\ UNCHANGED <<serviceVars, lastCode>>
  /\ UNCHANGED <<objsToTest, mouse, absent, xrVars, panelVars, widgetVars, db>>

\* PointerUp where the held sources are not followed
PointerUp == PointerUpHandler /\ UNCHANGED engage

\* window "touchstart"
TouchStartHandler(r) ==
  /\ selectState' = TRUE
  /\ mouse' = <<r>>
  /\ absent' = FALSE
  /\ last' = [op |-> "input", obj |-> NoObject]
  /\ tick' = NoTick
  /\ UNCHANGED <<serviceVars, lastCode>>
  /\ UNCHANGED <<objsToTest, xrVars, panelVars, widgetVars, gestureVars, db>>

\* TouchStart where the held sources are not followed
TouchStart(r) == TouchStartHandler(r) /\ UNCHANGED engage

\* window "touchend"; releasing the engagement ends the gesture
TouchEndHandler ==
  /\ selectState' = FALSE
  /\ mouse' = <<>>
  /\ absent' = TRUE
  /\ gesture' = NoObject /\ gestureClicks' = 0 /\ gestureFires' = 0
  /\ last' = [op |-> "input", obj |-> NoObject]
  /\ tick' = NoTick
  /\ UNCHANGED <<serviceVars, lastCode>>
  /\ UNCHANGED <<objsToTest, xrVars, panelVars, widgetVars, db>>

\* TouchEnd where the held sources are not followed
TouchEnd == TouchEndHandler /\ UNCHANGED engage

\* Mutant of SetPointerAt: the reticles of both controllers are moved.
SetPointerAtBoth(points, controllerID, point) ==
  [c \in DOMAIN points |-> point]

\* VRControls.setPointerAt(controllerID, vec): the reticle is a child of the
\* controller, so its position is the distance along that controller's ray.
SetPointerAt(points, controllerID, point) ==
  IF controllerID \notin 0..(GetControllerCount - 1) THEN points
  ELSE [points EXCEPT ![controllerID] = point]

\* InteractionManager.update(): one tick. frame is what the caller's loop did
\* around it (empty when update() is studied on its own).
UpdateStep(frame) ==
  LET is == Intersect
      W == UpdateObjectStates(World, objsToTest, 1, is.hit, selectState)
      hitObj == is.hit.object
      engaged == hitObj # NoObject /\ selectState
      continuing == engaged /\ gesture = hitObj
      clicks == IF continuing THEN gestureClicks + W.clicks ELSE IF engaged THEN W.clicks ELSE 0
      fires == IF continuing THEN gestureFires + W.fires ELSE IF engaged THEN W.fires ELSE 0
  IN /\ \A o \in Range(objsToTest) \cap Objects : W.widgets[o].timers <= MaxTimers
     /\ clicks <= MaxGesture
     /\ widgets' = W.widgets
     /\ ready' = W.ready
     /\ cooldown' = W.cooldown
     /\ reticle' = CASE is.src = "c0" -> SetPointerAt(reticle, 0, is.hit.distance)
                     [] is.src = "c1" -> SetPointerAt(reticle, 1, is.hit.distance)
                     [] OTHER -> reticle
     /\ gesture' = IF engaged THEN hitObj ELSE NoObject
     /\ gestureClicks' = clicks
     /\ gestureFires' = fires
     /\ last' = [op |-> "update", obj |-> hitObj]
     /\ tick' = [ray |-> is.ray, tests |-> is.tests, hit |-> is.hit, log |-> W.log,
                 steps |-> frame.steps, laidOut |-> frame.laidOut,
                 clicks |-> W.clicks, fires |-> W.fires]
     /\ lastCode' = W.code
     /\ dcButton' = W.dc
     /\ UNCHANGED <<disposed, demoIntervals, polling, buttonStatePollingTimer, intervals,
                    panelText, ret, engage>>
     /\ UNCHANGED <<objsToTest, inputVars, presenting, visible, ctrlRay, attached, xr,
                    endRequested, startCount, panelVars, db>>

Update == UpdateStep([steps |-> <<>>, laidOut |-> <<>>])

\* A pending settle-delay timer of widget o fires.
SettleTimer(o) ==
  /\ widgets[o].timers > 0
  /\ widgets' = [widgets EXCEPT ![o] = [Settle(o, @) EXCEPT !.timers = @ - 1]]
  /\ last' = [op |-> "settle", obj |-> o]
  /\ tick' = NoTick
  /\ UNCHANGED <<serviceVars, lastCode, engage>>
  /\ UNCHANGED <<objsToTest, inputVars, xrVars, panelVars, ready, cooldown, gestureVars, db>>

\* The cooldown timer of a debounce wrapper fires.
CooldownTimer(wr) ==
  LET W == CooldownFire(World, wr) IN
  /\ cooldown[wr] > 0
  /\ ready' = W.ready
  /\ cooldown' = W.cooldown
  /\ widgets' = W.widgets
  /\ db' = [db EXCEPT !.execs = @ + W.fires]
  /\ last' = [op |-> "cooldown", obj |-> wr]
  /\ tick' = NoTick
  /\ UNCHANGED <<serviceVars, lastCode, engage>>
  /\ UNCHANGED <<objsToTest, inputVars, xrVars, panelVars, gestureVars>>

\* An external caller (status polling) calls button.updateButtonState(isActive).
UpdateButtonState(o, isActive) ==
  /\ o \in InteractiveButtons \cap Range(objsToTest)
  /\ widgets' = UpdateButtonStateW(World, o, isActive).widgets
  /\ last' = [op |-> IF isActive THEN "forceActive" ELSE "clearActive", obj |-> o]
  /\ tick' = NoTick
  /\ UNCHANGED <<serviceVars, lastCode, engage>>
  /\ UNCHANGED <<objsToTest, inputVars, xrVars, panelVars, ready, cooldown, gestureVars, db>>

\* An external caller (status polling) calls toggleSwitch.updateFromServer(code).
UpdateFromServer(o, code) ==
  /\ o \in ServerToggles \cap Range(objsToTest)
  /\ widgets' = UpdateFromServerW(World, o, code).widgets
  /\ lastCode' = UpdateFromServerW(World, o, code).code
  /\ last' = [op |-> "updateFromServer", obj |-> o]
  /\ tick' = NoTick
  /\ UNCHANGED <<serviceVars, engage>>
  /\ UNCHANGED <<objsToTest, inputVars, xrVars, panelVars, ready, cooldown, gestureVars, db>>

NextButtons ==
  \/ \E r \in RaysOf(objsToTest) : PointerMove(r)
  \/ PointerDown
  \/ PointerUp
  \/ \E r \in RaysOf(objsToTest) : TouchStart(r)
  \/ TouchEnd
  \/ Update
  \/ \E o \in Range(objsToTest) : SettleTimer(o)
  \/ \E wr \in Wrappers : CooldownTimer(wr)
  \/ \E o \in Objects, isActive \in BOOLEAN : UpdateButtonState(o, isActive)

Next ==
  \/ NextButtons
  \/ \E o \in Objects, code \in ServerCodes : UpdateFromServer(o, code)

\* Desktop interaction: pointer and touch input, ticks, timers, external status.
Spec == Init /\ [][Next]_vars

\* ------------------------------------------------------------- settle delay
\* One InteractiveButton (with or without the debounced self-activating
\* callback); the browser's event loop runs every pending timer.
InitRevert == \E reg \in {<<"button1">>, <<"teleButton">>} : InitCore(reg) /\ attached = {0, 1}

SpecRevert ==
  /\ InitRevert
  /\ [][NextButtons]_vars
  /\ \A o \in InteractiveButtons : WF_vars(SettleTimer(o))

\* ------------------------------------------------------------- debounce alone
\* wrapper(arg) of the generic debounced function
InvokeGeneric(arg) ==
  LET W == DebounceInvoke(World, "generic", arg)
      wasReady == ready["generic"]
      inWindow == cooldown["generic"] > 0
  IN /\ db.calls < MaxCalls
     /\ ready' = W.ready
     /\ cooldown' = W.cooldown
     /\ widgets' = W.widgets
     /\ db' = [calls |-> db.calls + 1,
               execs |-> db.execs + W.fires,
               readyCalls |-> db.readyCalls + (IF wasReady THEN 1 ELSE 0),
               dropped |-> db.dropped + (IF W.fires = 0 THEN 1 ELSE 0),
               outside |-> db.outside + (IF inWindow THEN 0 ELSE 1),
               winCalls |-> IF inWindow THEN db.winCalls + 1 ELSE 1,
               winExecs |-> IF inWindow THEN db.winExecs + W.fires ELSE W.fires,
               ran |-> W.fires > 0,
               lastArg |-> IF W.lastArg # "none" THEN W.lastArg ELSE db.lastArg,
               thrown |-> W.thrown]
     /\ last' = [op |-> "invoke", obj |-> IF wasReady THEN "ready" ELSE "closed"]
     /\ tick' = NoTick
     /\ UNCHANGED <<serviceVars, lastCode, engage>>
     /\ UNCHANGED <<objsToTest, inputVars, xrVars, panelVars, gestureVars>>

InitDebounce == InitCore(<<>>) /\ attached = {0, 1}

NextDebounce ==
  \/ \E arg \in Args : InvokeGeneric(arg)
  \/ CooldownTimer("generic")

SpecDebounce == InitDebounce /\ [][NextDebounce]_vars

\* ------------------------------------------------------------- session
\* A physical controller connects or disconnects (no listener in this code).
Connect(c) ==
  /\ c \notin attached
  /\ attached' = attached \cup {c}
  /\ last' = [op |-> "connect", obj |-> NoObject]
  /\ tick' = NoTick
  /\ UNCHANGED <<serviceVars, lastCode, engage>>
  /\ UNCHANGED <<objsToTest, inputVars, presenting, visible, ctrlRay, reticle, xr,
                 endRequested, startCount, panelVars, widgetVars, gestureVars, db>>

Disconnect(c) ==
  /\ c \in attached
  /\ attached' = attached \ {c}
  /\ last' = [op |-> "disconnect", obj |-> NoObject]
  /\ tick' = NoTick
  /\ UNCHANGED <<serviceVars, lastCode, engage>>
  /\ UNCHANGED <<objsToTest, inputVars, presenting, visible, ctrlRay, reticle, xr,
                 endRequested, startCount, panelVars, widgetVars, gestureVars, db>>

\* A session starts: the renderer sets isPresenting and dispatches sessionstart;
\* the first listener is InteractionManager's (registered in its constructor).
SessionStartIM ==
  /\ ~presenting /\ xr = "idle"
  /\ Cardinality(scene) < MaxPanels
  /\ presenting' = TRUE
  /\ visible' = ShowOnSessionStart(visible)
  /\ xr' = "starting"
  /\ startCount' = Cardinality(attached)
  /\ last' = [op |-> "sessionstart", obj |-> "InteractionManager"]
  /\ tick' = NoTick
  /\ UNCHANGED <<serviceVars, lastCode, engage>>
  /\ UNCHANGED <<objsToTest, inputVars, ctrlRay, reticle, attached, endRequested,
                 panelVars, widgetVars, gestureVars, db>>

\* The second sessionstart listener, ThreeSceneManager's: controller gating,
\* then makeTextPanel with key "aaa".
SessionStartTSM ==
  /\ xr = "starting"
  /\ LET cnt == GetControllerCount IN
     endRequested' = IF GatingEndsSession(cnt) THEN TRUE ELSE endRequested
  /\ LET P == MakeTextPanel([panels |-> panels, scene |-> scene], "aaa")
     IN panels' = P.panels /\ scene' = P.scene
  /\ xr' = "idle"
  /\ last' = [op |-> "sessionstart", obj |-> "ThreeSceneManager"]
  /\ tick' = NoTick
  /\ UNCHANGED <<serviceVars, lastCode, engage>>
  /\ UNCHANGED <<objsToTest, inputVars, presenting, visible, ctrlRay, reticle, attached,
                 startCount, widgetVars, gestureVars, db>>

\* The session ends (the user leaves, or a requested end completes): the renderer
\* clears isPresenting and dispatches sessionend to both listeners.
SessionEnd ==
  /\ presenting /\ xr = "idle"
  /\ presenting' = FALSE
  /\ visible' = HideOnSessionEnd(visible)
  /\ endRequested' = FALSE
  /\ startCount' = -1
  /\ last' = [op |-> "sessionend", obj |-> NoObject]
  /\ tick' = NoTick
  /\ UNCHANGED <<serviceVars, lastCode, engage>>
  /\ UNCHANGED <<objsToTest, inputVars, ctrlRay, reticle, attached, xr,
                 panelVars, widgetVars, gestureVars, db>>

InitSession == InitCore(<<>>)

NextSession ==
  \/ \E c \in {0, 1} : Connect(c)
  \/ \E c \in {0, 1} : Disconnect(c)
  \/ SessionStartIM
  \/ SessionStartTSM
  \/ SessionEnd

SpecSession == InitSession /\ [][NextSession]_vars

\* ------------------------------------------------------------- registry and arbiter
\* Largest number of addInteractiveObject calls.
MaxRegistry == 3

\* The objects the registry study registers: an InteractiveButton and the
\* DataCollectionButton panel (whose inner button is a descendant, not registered).
AddableObjects == {"teleButton", "dcPanel"}

\* A ray seen against a registry that gained object o: d is the distance at
\* which the ray meets o (a ray that already knew o keeps its distance).
ExtendRay(ray, o, d) ==
  [x \in (DOMAIN ray) \cup {o} |-> IF x \in DOMAIN ray THEN ray[x] ELSE d]

\* Mutant of AddInteractiveObject: an object already registered is not pushed again.
AddInteractiveObjectOnce(o, d) ==
  /\ Len(objsToTest) < MaxRegistry
  /\ objsToTest' = IF o \in Range(objsToTest) THEN objsToTest ELSE Append(objsToTest, o)
  /\ mouse' = IF mouse = <<>> THEN mouse ELSE <<ExtendRay(mouse[1], o, d)>>
  /\ ctrlRay' = [c \in {0, 1} |-> ExtendRay(ctrlRay[c], o, 0)]
  /\ last' = [op |-> "register", obj |-> o]
  /\ tick' = NoTick
  /\ UNCHANGED <<serviceVars, lastCode, engage>>
  /\ UNCHANGED <<selectState, absent, presenting, visible, reticle, attached, xr, endRequested,
                 startCount, panelVars, widgetVars, gestureVars, db>>

\* InteractionManager.addInteractiveObject(obj): push, with no duplicate check
AddInteractiveObject(o, d) ==
  /\ Len(objsToTest) < MaxRegistry
  /\ objsToTest' = Append(objsToTest, o)
  /\ mouse' = IF mouse = <<>> THEN mouse ELSE <<ExtendRay(mouse[1], o, d)>>
  /\ ctrlRay' = [c \in {0, 1} |-> ExtendRay(ctrlRay[c], o, 0)]
  /\ last' = [op |-> "register", obj |-> o]
  /\ tick' = NoTick
  /\ UNCHANGED <<serviceVars, lastCode, engage>>
  /\ UNCHANGED <<selectState, absent, presenting, visible, reticle, attached, xr, endRequested,
                 startCount, panelVars, widgetVars, gestureVars, db>>

\* The pointer leaves the viewport: no listener is registered for it, the last
\* coordinates stay in this.mouse.
PointerLeave ==
  /\ ~absent
  /\ absent' = TRUE
  /\ last' = [op |-> "input", obj |-> NoObject]
  /\ tick' = NoTick
  /\ UNCHANGED <<serviceVars, lastCode, engage>>
  /\ UNCHANGED <<objsToTest, selectState, mouse, xrVars, panelVars, widgetVars, gestureVars, db>>

InitArbiter == InitCore(<<>>) /\ attached = {0, 1}

NextArbiter ==
  \/ \E o \in AddableObjects, d \in 0..MaxDist : AddInteractiveObject(o, d)
  \/ \E r \in RaysOf(objsToTest) : PointerMove(r)
  \/ PointerLeave
  \/ PointerDown
  \/ PointerUp
  \/ \E r \in RaysOf(objsToTest) : TouchStart(r)
  \/ TouchEnd
  \/ Update
  \/ \E o \in Range(objsToTest) : SettleTimer(o)

\* Any registry built by addInteractiveObject calls, desktop input, ticks.
SpecArbiter == InitArbiter /\ [][NextArbiter]_vars

\* ------------------------------------------------------------- immersive session
\* The pose of controller c changes: setFromController reads its matrixWorld.
ControllerMove(c, r) ==
  /\ presenting
  /\ ctrlRay' = [ctrlRay EXCEPT ![c] = r]
  /\ last' = [op |-> "input", obj |-> NoObject]
  /\ tick' = NoTick
  /\ UNCHANGED <<serviceVars, lastCode, engage>>
  /\ UNCHANGED <<objsToTest, inputVars, presenting, visible, reticle, attached, xr, endRequested,
                 startCount, panelVars, widgetVars, gestureVars, db>>

\* controllers[c] "selectstart"
SelectStartHandler(c) ==
  /\ presenting
  /\ selectState' = TRUE
  /\ last' = [op |-> "input", obj |-> NoObject]
  /\ tick' = NoTick
  /\ UNCHANGED <<serviceVars, lastCode>>
  /\ UNCHANGED <<objsToTest, mouse, absent, xrVars, panelVars, widgetVars, gestureVars, db>>

\* SelectStart where the held sources are not followed
SelectStart(c) == SelectStartHandler(c) /\ UNCHANGED engage

\* controllers[c] "selectend"; releasing the engagement ends the gesture
SelectEndHandler(c) ==
  /\ presenting
  /\ selectState' = FALSE
  /\ gesture' = NoObject /\ gestureClicks' = 0 /\ gestureFires' = 0
  /\ last' = [op |-> "input", obj |-> NoObject]
  /\ tick' = NoTick
  /\ UNCHANGED <<serviceVars, lastCode>>
  /\ UNCHANGED <<objsToTest, mouse, absent, xrVars, panelVars, widgetVars, db>>

\* SelectEnd where the held sources are not followed
SelectEnd(c) == SelectEndHandler(c) /\ UNCHANGED engage

\* The registry of the immersive study.
RegistryVR == <<"teleButton", "dcPanel">>

\* The widgets stand side by side: a controller ray meets at most one of them.
ControllerRays(reg) ==
  {r \in RaysOf(reg) : Cardinality({o \in Range(reg) : r[o] > 0}) <= 1}

\* The pointer rests on the first registered object, or the user touched the
\* screen (touchstart, touchend) before putting the headset on.
PointerMovedOnto(reg) == [o \in Range(reg) |-> IF o = reg[1] THEN 1 ELSE 0]

InitVR ==
  /\ objsToTest = RegistryVR
  /\ selectState = FALSE
  /\ mouse \in {<<>>, <<PointerMovedOnto(RegistryVR)>>}
  /\ absent = (mouse = <<>>)
  /\ presenting = FALSE
  /\ visible = HideOnSetup([v \in Visuals |-> TRUE])
  /\ ctrlRay = [c \in {0, 1} |-> MissAll(RegistryVR)]
  /\ reticle = [c \in {0, 1} |-> 0]
  /\ attached = {0, 1}
  /\ xr = "idle"
  /\ endRequested = FALSE
  /\ LET P == MakeTextPanel([panels |-> [k \in PanelKeys |-> 0], scene |-> {}], "aaa")
     IN panels = P.panels /\ scene = P.scene
  /\ widgets = [o \in Objects |-> WidgetInit(o)]
  /\ ready = [wr \in Wrappers |-> TRUE]
  /\ cooldown = [wr \in Wrappers |-> 0]
  /\ last = [op |-> "init", obj |-> NoObject]
  /\ gesture = NoObject
  /\ gestureClicks = 0
  /\ gestureFires = 0
  /\ startCount = -1
  /\ db = DbInit
  /\ tick = NoTick
  /\ ServiceInit

\* The first immersive session. The two sessionstart listeners run back to
\* back; nothing else runs between them.
NextVR ==
  \/ Cardinality(scene) = Cardinality(PanelKeys) /\ SessionStartIM
  \/ SessionStartTSM
  \/ SessionEnd
  \/ xr = "idle" /\ \E c \in {0, 1}, r \in ControllerRays(objsToTest) : ControllerMove(c, r)
  \/ xr = "idle" /\ \E c \in {0, 1} : SelectStart(c)
  \/ xr = "idle" /\ \E c \in {0, 1} : SelectEnd(c)
  \/ xr = "idle" /\ Update
  \/ xr = "idle" /\ \E o \in Range(objsToTest) : SettleTimer(o)

SpecVR == InitVR /\ [][NextVR]_vars

\* ------------------------------------------------------------- frame loop
\* The steps of ThreeSceneManager.loop(), in the order it runs them.
LoopSteps ==
  <<"ThreeMeshUI.update", "controls.update", "interactionManager.update",
    "toggleSwitch.update", "renderer.render">>

\* ThreeSceneManager.loop(): ThreeMeshUI.update() lays the blocks out with the
\* attributes set so far, then interactionManager.update() dispatches, then the
\* frame is rendered with that layout.
Loop ==
  UpdateStep([steps |-> LoopSteps,
              laidOut |-> [o \in Range(objsToTest) |-> widgets[o].look]])

InitFrame == \E reg \in {<<"teleButton">>, <<"teleButton", "simpleButton">>} :
  InitCore(reg) /\ attached = {0, 1}

NextFrame ==
  \/ \E r \in RaysOf(objsToTest) : PointerMove(r)
  \/ PointerDown
  \/ PointerUp
  \/ TouchEnd
  \/ Loop
  \/ \E o \in Range(objsToTest) : SettleTimer(o)

SpecFrame == InitFrame /\ [][NextFrame]_vars

\* ------------------------------------------------------------- status timers
\* DataCollectionButton.setValue(isCollecting): no callback
DcSetValue(d, isCollecting) ==
  [d EXCEPT !.value = IF isCollecting THEN "on" ELSE "off", !.called = "none"]

\* The callback of a demo interval of initScene runs:
\* button1.updateButtonState(random) or toggleSwitch.updateFromServer(random).
DemoInterval(o, isActive, code) ==
  LET W == IF o = "button1" THEN UpdateButtonStateW(World, o, isActive)
           ELSE UpdateFromServerW(World, o, code)
  IN /\ o \in demoIntervals
     /\ widgets' = W.widgets
     /\ lastCode' = W.code
     /\ last' = [op |-> "demoInterval", obj |-> o]
     /\ tick' = NoTick
     /\ UNCHANGED <<objsToTest, inputVars, xrVars, panelVars, ready, cooldown, gestureVars, db,
                    serviceVars, engage>>

\* Mutant of PollFire: the callback arms two timers.
PollFireArmsTwice(p, t) ==
  LET n == NewTimer(p.live)
      rest == (p.live \ {t}) \cup {n}
  IN [p EXCEPT !.isCollecting = ~@, !.pollTimer = NewTimer(rest),
               !.live = rest \cup {NewTimer(rest)}]

\* The setTimeout callback of startPolling's fetchData: flip isCollecting,
\* (setValue, updateStatusText,) fetchData() arms the next timer.
PollFire(p, t) ==
  LET n == NewTimer(p.live)
  IN [p EXCEPT !.isCollecting = ~@, !.pollTimer = n, !.live = (@ \ {t}) \cup {n}]

\* Mutant of PollCleanup: the handle is forgotten, the timer is not cleared.
PollCleanupForgets(p) ==
  [p EXCEPT !.pollTimer = 0]

\* The cleanup function startPolling returns: if (pollTimer) clearTimeout(pollTimer)
PollCleanup(p) ==
  IF p.pollTimer # 0 THEN [p EXCEPT !.live = @ \ {p.pollTimer}] ELSE p

\* A poll timer of startPolling fires.
PollTimerFire(t) ==
  /\ t \in polling.live
  /\ Cardinality(polling.live) <= MaxLive
  /\ polling' = [PollFire(polling, t) EXCEPT !.cleaned = polling.cleaned]
  /\ dcButton' = DcSetValue(dcButton, polling'.isCollecting)
  /\ last' = [op |-> "pollTimer", obj |-> "dataCollectionButton"]
  /\ tick' = NoTick
  /\ UNCHANGED <<objsToTest, inputVars, xrVars, panelVars, widgetVars, gestureVars, db,
                 engage, disposed, demoIntervals, buttonStatePollingTimer, intervals, panelText, ret,
                 lastCode>>

\* Somebody calls the cleanup function startPolling returned (initScene drops it).
PollCleanupCall ==
  /\ polling' = [PollCleanup(polling) EXCEPT !.cleaned = TRUE]
  /\ last' = [op |-> "cleanup", obj |-> NoObject]
  /\ tick' = NoTick
  /\ UNCHANGED <<objsToTest, inputVars, xrVars, panelVars, widgetVars, gestureVars, db,
                 engage, disposed, demoIntervals, buttonStatePollingTimer, intervals, dcButton,
                 panelText, ret, lastCode>>

\* Mutant of StartButtonStatePollingOp: the running interval is not cleared.
StartButtonStatePollingNoClear(b) ==
  LET n == NewTimer(b.live) IN [timer |-> n, live |-> b.live \cup {n}]

\* ThreeSceneManager.startButtonStatePolling(): clear the running interval, start a new one
StartButtonStatePollingOp(b) ==
  LET n == NewTimer(b.live)
      cleared == IF b.timer # 0 THEN b.live \ {b.timer} ELSE b.live
  IN [timer |-> n, live |-> cleared \cup {n}]

\* Mutant of StopButtonStatePollingOp: the handle is cleared, the interval is not.
StopButtonStatePollingNullOnly(b) ==
  [b EXCEPT !.timer = 0]

\* ThreeSceneManager.stopButtonStatePolling()
StopButtonStatePollingOp(b) ==
  IF b.timer # 0 THEN [timer |-> 0, live |-> b.live \ {b.timer}] ELSE b

ButtonPolling == [timer |-> buttonStatePollingTimer, live |-> intervals]

StartButtonStatePolling ==
  /\ ~disposed
  /\ Cardinality(intervals) <= MaxLive
  /\ LET b == StartButtonStatePollingOp(ButtonPolling)
     IN buttonStatePollingTimer' = b.timer /\ intervals' = b.live
  /\ last' = [op |-> "startButtonStatePolling", obj |-> NoObject]
  /\ tick' = NoTick
  /\ UNCHANGED <<objsToTest, inputVars, xrVars, panelVars, widgetVars, gestureVars, db,
                 engage, disposed, demoIntervals, polling, dcButton, panelText, ret, lastCode>>

StopButtonStatePolling ==
  /\ LET b == StopButtonStatePollingOp(ButtonPolling)
     IN buttonStatePollingTimer' = b.timer /\ intervals' = b.live
  /\ last' = [op |-> "stopButtonStatePolling", obj |-> NoObject]
  /\ tick' = NoTick
  /\ UNCHANGED <<objsToTest, inputVars, xrVars, panelVars, widgetVars, gestureVars, db,
                 engage, disposed, demoIntervals, polling, dcButton, panelText, ret, lastCode>>

\* The interval callback of startButtonStatePolling runs for timer t: every
\* registered button gets updateButtonState(random).
ButtonStatePoll(t, isActive) ==
  /\ t \in intervals
  /\ widgets' = [o \in Objects |->
                   IF o \in RegisteredButtons
                   THEN UpdateButtonStateW(World, o, isActive[o]).widgets[o]
                   ELSE widgets[o]]
  /\ last' = [op |-> "buttonStatePoll", obj |-> NoObject]
  /\ tick' = NoTick
  /\ UNCHANGED <<objsToTest, inputVars, xrVars, panelVars, ready, cooldown, gestureVars, db,
                 serviceVars, lastCode, engage>>

\* ThreeSceneManager.dispose(): stops the animation loop, clears debounceTimers
\* (always empty: the private debounce has no caller) and calls
\* stopButtonStatePolling().
Dispose ==
  /\ ~disposed
  /\ disposed' = TRUE
  /\ LET b == StopButtonStatePollingOp(ButtonPolling)
     IN buttonStatePollingTimer' = b.timer /\ intervals' = b.live
  /\ last' = [op |-> "dispose", obj |-> NoObject]
  /\ tick' = NoTick
  /\ UNCHANGED <<objsToTest, inputVars, xrVars, panelVars, widgetVars, gestureVars, db,
                 engage, demoIntervals, polling, dcButton, panelText, ret, lastCode>>

InitPolling == InitCore(<<>>) /\ attached = {0, 1}

NextPolling ==
  \/ \E o \in DemoIntervals, isActive \in BOOLEAN, code \in DemoStates :
       DemoInterval(o, isActive, code)
  \/ \E t \in 1..(MaxLive + 1) : PollTimerFire(t)
  \/ PollCleanupCall
  \/ StartButtonStatePolling
  \/ StopButtonStatePolling
  \/ \E t \in 1..(MaxLive + 1), isActive \in [RegisteredButtons -> BOOLEAN] :
       ButtonStatePoll(t, isActive)
  \/ Dispose

SpecPolling == InitPolling /\ [][NextPolling]_vars

\* ------------------------------------------------------------- data collection button
\* Mutant of DcToggle: pause is skipped.
DcToggleSkipsPause(d) ==
  LET v == IF d.value = "off" THEN "on" ELSE "off"
  IN [d EXCEPT !.value = v, !.look = "value", !.called = v]

\* DataCollectionButton.toggle(): advance the value, updateUI(), callback(value);
\* called is history: what the callback received in this step.
DcToggle(d) ==
  LET v == IF d.value = "off" THEN "on" ELSE IF d.value = "on" THEN "pause" ELSE "off"
  IN [d EXCEPT !.value = v, !.look = "value", !.called = v]

\* button.setState(state) of the DataCollectionButton's inner button
DcSetState(state) ==
  /\ dcButton.timers < MaxTimers \/ state # "selected"
  /\ dcButton' = DcHandleButtonStateChange(dcButton, state)
  /\ last' = [op |-> "dcSetState", obj |-> state]
  /\ tick' = NoTick
  /\ UNCHANGED <<objsToTest, inputVars, xrVars, panelVars, widgetVars, gestureVars, db,
                 engage, disposed, demoIntervals, polling, buttonStatePollingTimer, intervals,
                 panelText, ret, lastCode>>

\* A 100 ms timer of handleButtonStateChange("selected") fires: toggle()
DcToggleTimer ==
  /\ dcButton.timers > 0
  /\ dcButton' = [DcToggle(dcButton) EXCEPT !.timers = @ - 1]
  /\ last' = [op |-> "dcToggle", obj |-> NoObject]
  /\ tick' = NoTick
  /\ UNCHANGED <<objsToTest, inputVars, xrVars, panelVars, widgetVars, gestureVars, db,
                 engage, disposed, demoIntervals, polling, buttonStatePollingTimer, intervals,
                 panelText, ret, lastCode>>

InitCollect == InitCore(<<>>) /\ attached = {0, 1}

NextCollect ==
  \/ \E state \in {"idle", "hovered", "selected"} : DcSetState(state)
  \/ DcToggleTimer
  \/ \E t \in 1..(MaxLive + 1) : PollTimerFire(t)
  \/ PollCleanupCall

SpecCollect == InitCollect /\ [][NextCollect]_vars

\* ------------------------------------------------------------- panel registry
\* The keys callers ask for: the key the app creates panels under, and one it never uses.
RequestKeys == PanelKeys \cup {"other"}

\* The texts updatePanelText is called with.
PanelTexts == {"new"}

\* ThreeSceneManager.getPanel(key): panels.get(key), 0 for undefined
GetPanel(P, key) == IF key \in DOMAIN P THEN P[key] ELSE 0

\* ThreeSceneManager.updatePanelText(key, newTextContent)
UpdatePanelText(key, text) ==
  LET panel == GetPanel(panels, key) IN
  /\ IF panel = 0
     THEN ret' = "false" /\ UNCHANGED panelText
     ELSE ret' = "true" /\ panelText' = [panelText EXCEPT ![panel] = text]
  /\ last' = [op |-> "updatePanelText", obj |-> key]
  /\ tick' = NoTick
  /\ UNCHANGED <<objsToTest, inputVars, xrVars, panelVars, widgetVars, gestureVars, db,
                 engage, disposed, demoIntervals, polling, buttonStatePollingTimer, intervals,
                 dcButton, lastCode>>

\* ThreeSceneManager.removePanel(key). The removed container is garbage; its
\* number may name a later container, which starts with the text it is made with.
RemovePanel(key) ==
  LET panel == GetPanel(panels, key) IN
  /\ IF panel # 0
     THEN /\ scene' = scene \ {panel}
          /\ panels' = [panels EXCEPT ![key] = 0]
          /\ panelText' = [panelText EXCEPT ![panel] = "made"]
          /\ ret' = "true"
     ELSE ret' = "false" /\ UNCHANGED <<panels, scene, panelText>>
  /\ last' = [op |-> "removePanel", obj |-> key]
  /\ tick' = NoTick
  /\ UNCHANGED <<objsToTest, inputVars, xrVars, widgetVars, gestureVars, db,
                 engage, disposed, demoIntervals, polling, buttonStatePollingTimer, intervals,
                 dcButton, lastCode>>

InitPanels == InitCore(<<>>) /\ attached = {0, 1}

NextPanels ==
  \/ SessionStartIM
  \/ SessionStartTSM
  \/ SessionEnd
  \/ \E key \in RequestKeys, text \in PanelTexts : UpdatePanelText(key, text)
  \/ \E key \in RequestKeys : RemovePanel(key)

SpecPanels == InitPanels /\ [][NextPanels]_vars

\* ------------------------------------------------------------- engagement sources
\* The sources of engagement events: the pointer, a finger, the two controllers.
Sources == {"pointer", "touch", "c0", "c1"}

\* The registry of the engagement study.
RegistryEngage == <<"teleButton">>

\* A controller ray misses, or meets the button at the nearest distance.
NearRays(reg) == {r \in ControllerRays(reg) : \A o \in Range(reg) : r[o] <= 1}

\* Mutant of EngageEndHandler: a controller's selectend leaves the flag alone
\* while the other controller is still held.
EngageEndPerController(src) ==
  IF src \in {"c0", "c1"} /\ (engage.held \ {src}) \cap {"c0", "c1"} # {}
  THEN /\ presenting
       /\ last' = [op |-> "input", obj |-> NoObject]
       /\ tick' = NoTick
       /\ UNCHANGED <<objsToTest, inputVars, xrVars, panelVars, widgetVars, gestureVars, db,
                      serviceVars, lastCode>>
  ELSE CASE src = "pointer" -> PointerUpHandler
         [] src = "touch" -> TouchEndHandler
         [] src = "c0" -> SelectEndHandler(0)
         [] OTHER -> SelectEndHandler(1)

\* The listener of the source's start event: pointerdown, touchstart, selectstart
EngageStartHandler(src) ==
  CASE src = "pointer" -> PointerDownHandler
    [] src = "touch" -> TouchStartHandler(PointerMovedOnto(objsToTest))
    [] src = "c0" -> SelectStartHandler(0)
    [] OTHER -> SelectStartHandler(1)

\* The listener of the source's end event: pointerup, touchend, selectend
EngageEndHandler(src) ==
  CASE src = "pointer" -> PointerUpHandler
    [] src = "touch" -> TouchEndHandler
    [] src = "c0" -> SelectEndHandler(0)
    [] OTHER -> SelectEndHandler(1)

\* The user presses the source: it was not held, its start event is delivered.
EngageStart(src) ==
  /\ src \notin engage.held
  /\ EngageStartHandler(src)
  /\ engage' = [held |-> engage.held \cup {src}, by |-> src, start |-> TRUE]

\* The user releases the source: it was held, its end event is delivered.
EngageEnd(src) ==
  /\ src \in engage.held
  /\ EngageEndHandler(src)
  /\ engage' = [held |-> engage.held \ {src}, by |-> src, start |-> FALSE]

InitEngage == InitCore(RegistryEngage) /\ attached = {0, 1}

\* The first immersive session, with all four sources.
NextEngage ==
  \/ Cardinality(scene) = Cardinality(PanelKeys) /\ SessionStartIM
  \/ SessionStartTSM
  \/ xr = "idle" /\ \E src \in Sources : EngageStart(src)
  \/ xr = "idle" /\ \E src \in Sources : EngageEnd(src)
  \/ xr = "idle" /\ \E c \in {0, 1}, r \in NearRays(objsToTest) : ControllerMove(c, r)
  \/ xr = "idle" /\ Update
  \/ xr = "idle" /\ \E o \in Range(objsToTest) : SettleTimer(o)

SpecEngage == InitEngage /\ [][NextEngage]_vars

\* ------------------------------------------------------------- registry lifetime
\* The dispose() of a widget (InteractiveButton.dispose has an empty body, the
\* others free materials): the registry is not told.
WidgetDispose(o) ==
  /\ o \in Range(objsToTest)
  /\ last' = [op |-> "widgetDispose", obj |-> o]
  /\ tick' = NoTick
  /\ UNCHANGED <<objsToTest, inputVars, xrVars, panelVars, widgetVars, gestureVars, db,
                 serviceVars, lastCode, engage>>

InitRegistry == InitCore(<<>>) /\ attached = {0, 1}

\* Registration, desktop input, widget disposal and ticks while the animation
\* loop runs; ThreeSceneManager.dispose() stops the loop.
NextRegistry ==
  \/ ~disposed /\ \E o \in AddableObjects, d \in 0..1 : AddInteractiveObject(o, d)
  \/ \E r \in RaysOf(objsToTest) : PointerMove(r)
  \/ PointerDown
  \/ PointerUp
  \/ ~disposed /\ Update
  \/ \E o \in Range(objsToTest) : SettleTimer(o)
  \/ \E o \in AddableObjects : WidgetDispose(o)
  \/ Dispose

SpecRegistry == InitRegistry /\ [][NextRegistry]_vars

\* ------------------------------------------------------------- objects without isUI
\* An Object3D handed to addInteractiveObject that carries no isUI flag and no
\* setState (both are optional members of IInteractiveObject).
PlainObjects == {"plainMesh"}

InitFlag == InitCore(<<>>) /\ attached = {0, 1}

\* A registry of one widget and one plain object, desktop input, ticks.
NextFlag ==
  \/ \E o \in PlainObjects \cup {"teleButton"}, d \in 0..MaxDist : AddInteractiveObject(o, d)
  \/ \E r \in RaysOf(objsToTest) : PointerMove(r)
  \/ PointerDown
  \/ PointerUp
  \/ Update
  \/ \E o \in Range(objsToTest) \cap Objects : SettleTimer(o)

SpecFlag == InitFlag /\ [][NextFlag]_vars

\* ------------------------------------------------------------- registered panel
\* createDataCollectionButton: the panel of the DataCollectionButton is the
\* registered object; the status poll runs beside the ticks.
RegistryPanel == <<"dcPanel", "teleButton">>

InitPanelTick == InitCore(RegistryPanel) /\ attached = {0, 1}

NextPanelTick ==
  \/ \E r \in RaysOf(objsToTest) : PointerMove(r)
  \/ PointerDown
  \/ PointerUp
  \/ Update
  \/ \E o \in Range(objsToTest) : SettleTimer(o)
  \/ \E t \in 1..(MaxLive + 1) : PollTimerFire(t)

SpecPanelTick == InitPanelTick /\ [][NextPanelTick]_vars

\* ------------------------------------------------------------- claims
\* Objects whose widget tracks __currentState.
Tracked == InteractiveButtons \cup SelfToggles

HoveredOrSelected ==
  {o \in Range(objsToTest) : widgets[o].currentState \in {"hovered", "selected"}}

\* C1: after every call of update(), at most one registered object is in
\* hovered or selected, and every other tracked object is idle or active.
C1_NearestHitExclusivity ==
  last.op = "update" =>
    /\ Cardinality(HoveredOrSelected) <= 1
    /\ \A o \in (Range(objsToTest) \cap Tracked) \ HoveredOrSelected :
         widgets[o].currentState \in {"idle", "active"}

\* C2: during one continuous gesture on a button (same nearest hit, engagement
\* asserted without interruption, any number of ticks) the click callback has
\* been executed exactly once.
C2_OneShotSelection ==
  gesture \in InteractiveButtons \cup SimpleButtons => gestureClicks = 1

\* C3: whenever an InteractiveButton is in selected, it is eventually idle
\* (the settle timer fires), also while the engagement stays asserted and the
\* button stays the nearest hit.
C3_AutoRevert ==
  \A o \in InteractiveButtons :
    (widgets[o].currentState = "selected") ~> (widgets[o].currentState = "idle")

\* The settle timer has just put the button in idle although the gesture on it
\* is still going on (engaged, still the nearest hit).
C3_Witness ==
  \E o \in InteractiveButtons :
    /\ last = [op |-> "settle", obj |-> o]
    /\ selectState /\ gesture = o /\ Intersect.hit.object = o
    /\ widgets[o].currentState = "idle"

\* C4: an InteractiveButton leaves active only in a step that is an explicit
\* updateButtonState(false) on it; no tick and no settle timer takes it out.
C4_ActiveImmunity ==
  [][\A o \in InteractiveButtons :
       (widgets[o].currentState = "active" /\ widgets'[o].currentState # "active")
         => last' = [op |-> "clearActive", obj |-> o]]_vars

\* C5: a settle-delay callback changes the tracked state of its object only
\* when that state is still selected; otherwise it is a no-op.
C5_StaleTimerSafety ==
  [][\A o \in Tracked :
       (last' = [op |-> "settle", obj |-> o] /\ widgets[o].currentState # "selected")
         => widgets'[o].currentState = widgets[o].currentState]_vars

\* C6: all invocations of the debounced wrapper made inside one cooldown window
\* (from the invocation that opens it until its timer fires) execute fn exactly
\* once, and every invocation made outside a window (the first one, and each one
\* after a cooldown timer fired) executes fn once more.
C6_DebounceIdempotence ==
  /\ db.winCalls >= 1 => db.winExecs = 1
  /\ db.execs = db.outside

\* Two invocations in one window, then one after the cooldown: two executions.
C6_Witness ==
  db.calls = 3 /\ db.dropped = 1 /\ db.execs = 2 /\ db.winCalls = 1

\* C7: an invocation made while the guard is ready runs fn inside that very
\* invocation; one made while it is closed does not run it, neither then nor
\* later (executions never exceed the invocations made while ready); once the
\* cooldown timer has fired the guard is ready again.
C7_LeadingEdgeNoReplay ==
  /\ db.execs <= db.readyCalls
  /\ db.execs + db.dropped = db.calls
  /\ last.op = "invoke" => (db.ran <=> last.obj = "ready")
  /\ last.op = "cooldown" => ready["generic"]

\* An invocation was dropped, the window has elapsed, and fn ran only once.
C7_Witness ==
  last.op = "cooldown" /\ ready["generic"] /\ db.dropped >= 1 /\ db.execs = 1

\* C8: during one continuous gesture on a widget whose action is wrapped by
\* debounce (button1, toggleSwitch), the wrapped action has fired at most once.
C8_DebouncedGestureOnce ==
  gesture \in {"button1", "toggleSwitch"} => gestureFires <= 1

\* C9: while a session runs that started with fewer than two connected
\* controllers, no controller or grip visual is visible, and once the
\* sessionstart listeners have returned the session is over.
C9_ControllerGating ==
  startCount \in {0, 1} =>
    /\ \A v \in Visuals : ~visible[v]
    /\ xr = "idle" => ~presenting

\* C10: the visible flag of both controllers and both grips equals whether a
\* session is active, in every state.
C10_VisibilityEdges ==
  \A v \in Visuals : visible[v] = presenting

\* A session has started and ended again, and all four visuals are hidden.
C10_Witness ==
  /\ last.op = "sessionend" /\ ~presenting
  /\ Cardinality(scene) >= 2
  /\ \A v \in Visuals : ~visible[v]

\* C11: in a tick of a presenting session the pointer ray is not used: the
\* result is the hit of controller 0 when it has one (controller 1 is then not
\* tested, even if it would hit nearer), else the hit of controller 1; outside
\* a session the result is the hit of the pointer/touch ray, or none. The hit
\* object is the one the tick put in hovered or selected.
C11_SourceSelection ==
  last.op = "update" =>
    /\ IF presenting
       THEN LET h0 == Raycast(objsToTest, ctrlRay[0])
                h1 == Raycast(objsToTest, ctrlRay[1])
            IN /\ tick.ray \in {"c0", "c1"}
               /\ h0 # NoHit => (tick.hit = h0 /\ tick.ray = "c0" /\ tick.tests = 1)
               /\ h0 = NoHit => (tick.hit = h1 /\ tick.ray = "c1" /\ tick.tests = 2)
       ELSE /\ tick.ray \in {"mouse", "none"}
            /\ tick.hit = (IF mouse # <<>> THEN Raycast(objsToTest, mouse[1]) ELSE NoHit)
    /\ \A o \in Range(objsToTest) \cap Tracked :
         (widgets[o].currentState \in {"hovered", "selected"}) <=> (o = tick.hit.object)

\* In a session, controller 0 hit the farther object and won although
\* controller 1 points at a nearer one and the pointer rests on yet another hit.
C11_Witness ==
  /\ last.op = "update" /\ presenting /\ mouse # <<>>
  /\ tick.ray = "c0"
  /\ Raycast(objsToTest, ctrlRay[1]) # NoHit
  /\ Raycast(objsToTest, ctrlRay[1]).distance < tick.hit.distance
  /\ Raycast(objsToTest, ctrlRay[1]).object # tick.hit.object
  /\ Raycast(objsToTest, mouse[1]).object # tick.hit.object

\* The registered objects the pointer ray intersects.
PointerHits == {o \in Range(objsToTest) : mouse[1][o] > 0}

\* C12: for the pointer ray and any registry (any registration order), the hit
\* of the tick is a registered object the ray intersects, at that object's
\* nearest distance, and no intersected registered object is nearer; so of two
\* objects at d1 < d2 the one at d1 is returned.
C12_DistanceTieBreak ==
  (last.op = "update" /\ mouse # <<>> /\ PointerHits # {}) =>
    /\ tick.hit.object \in PointerHits
    /\ tick.hit.distance = mouse[1][tick.hit.object]
    /\ \A o \in PointerHits : tick.hit.distance <= mouse[1][o]

\* The nearer of two intersected objects was registered after the farther one
\* and is the hit.
C12_Witness ==
  /\ last.op = "update" /\ mouse # <<>>
  /\ \E i, j \in 1..Len(objsToTest) :
       /\ i < j
       /\ mouse[1][objsToTest[j]] > 0
       /\ mouse[1][objsToTest[i]] > mouse[1][objsToTest[j]]
       /\ tick.hit.object = objsToTest[j]

\* C13: the hit of a tick is a member of the registry (never the descendant
\* mesh three.js reports) or none; when the ray intersects no registered
\* object the hit is none and the tick still dispatches to every object.
C13_HitIsRegisteredObject ==
  last.op = "update" =>
    /\ tick.hit.object \in Range(objsToTest) \cup {NoObject}
    /\ tick.hit.object # DescendantMesh
    /\ (mouse # <<>> /\ PointerHits = {}) =>
         (tick.hit = NoHit /\ tick.tests = 1 /\ Len(tick.log) = Len(objsToTest))
    /\ (mouse # <<>> /\ PointerHits # {}) => tick.hit.object \in Range(objsToTest)

\* The ray met the inner geometry of the panel and the registered panel is the hit.
C13_Witness ==
  /\ last.op = "update" /\ mouse # <<>>
  /\ tick.hit.object = "dcPanel"
  /\ Len(objsToTest) >= 2

\* C14: a tick outside a session with NaN pointer coordinates performs no hit
\* test and dispatches idle, once, to every registered object in order.
C14_NoActiveInput ==
  (last.op = "update" /\ ~presenting /\ mouse = <<>>) =>
    /\ tick.tests = 0
    /\ tick.hit = NoHit
    /\ Len(tick.log) = Len(objsToTest)
    /\ \A i \in 1..Len(objsToTest) : tick.log[i] = [obj |-> objsToTest[i], state |-> "idle"]

\* A tick with NaN coordinates and the engagement asserted, two objects registered.
C14_Witness ==
  /\ last.op = "update" /\ ~presenting /\ mouse = <<>> /\ selectState
  /\ Len(objsToTest) >= 2
  /\ Len(tick.log) >= 2

\* C15: while the pointer is outside the viewport or no finger touches (since
\* the last pointer move / touch start), a tick outside a session has no ray.
C15_AbsentPointerNoRay ==
  (last.op = "update" /\ ~presenting /\ absent) => (tick.ray = "none" /\ tick.tests = 0)

\* C16: the sessionend handling hides the four visuals and puts in idle every
\* object the preceding tick had put in hovered or selected through a
\* controller ray, in the same step.
C16_SessionEndCancels ==
  [][last'.op = "sessionend" =>
       /\ \A v \in Visuals : ~visible'[v]
       /\ (last.op = "update" /\ tick.ray \in {"c0", "c1"}) =>
            \A o \in Range(objsToTest) \cap Tracked :
              (widgets[o].currentState \in {"hovered", "selected"})
                => widgets'[o].currentState = "idle"]_vars

\* C17: in the dispatch log of one tick, two calls of the same object's
\* handler with the same state are separated by a call of it with another state.
C17_NoRepeatedDispatch ==
  last.op = "update" =>
    \A i, j \in 1..Len(tick.log) :
      (i < j /\ tick.log[i] = tick.log[j]) =>
        \E k \in (i + 1)..(j - 1) :
          tick.log[k].obj = tick.log[i].obj /\ tick.log[k].state # tick.log[i].state

\* C18: in a tick the nearest hit is sent hovered (engagement not asserted) or
\* selected (asserted), and a tracked object that enters selected was hovered
\* before the tick.
C18_TransitionTable ==
  [][last'.op = "update" =>
       /\ tick'.hit # NoHit =>
            \E i \in 1..Len(tick'.log) :
              tick'.log[i] = [obj |-> tick'.hit.object,
                              state |-> IF selectState THEN "selected" ELSE "hovered"]
       /\ \A o \in Range(objsToTest) \cap Tracked :
            (widgets'[o].currentState = "selected" /\ widgets[o].currentState # "selected")
              => widgets[o].currentState = "hovered"]_vars

\* C19: a step that is updateButtonState(true) leaves the button active, from
\* any state; a step that is updateButtonState(false) on an active button
\* leaves it idle; whatever the hit and the engagement are.
C19_ExternalOverride ==
  [][\A o \in InteractiveButtons :
       /\ last' = [op |-> "forceActive", obj |-> o] => widgets'[o].currentState = "active"
       /\ (last' = [op |-> "clearActive", obj |-> o] /\ widgets[o].currentState = "active")
            => widgets'[o].currentState = "idle"]_vars

\* The button was forced active while it is pressed (nearest hit, engaged, its
\* settle timer pending).
C19_Witness ==
  \E o \in InteractiveButtons :
    /\ last = [op |-> "forceActive", obj |-> o]
    /\ widgets[o].currentState = "active"
    /\ selectState /\ Intersect.hit.object = o
    /\ widgets[o].timers > 0

\* Position of a step in a frame's step list (0: absent).
StepIndex(steps, name) ==
  IF \E i \in 1..Len(steps) : steps[i] = name
  THEN CHOOSE i \in 1..Len(steps) : steps[i] = name
  ELSE 0

\* C20: in every frame the state dispatch (interactionManager.update) comes
\* before the UI layout update (ThreeMeshUI.update), which comes before render;
\* so the layout that is rendered is that of the looks the dispatch just set.
C20_FrameOrder ==
  (last.op = "update" /\ tick.steps # <<>>) =>
    /\ StepIndex(tick.steps, "interactionManager.update") < StepIndex(tick.steps, "ThreeMeshUI.update")
    /\ StepIndex(tick.steps, "ThreeMeshUI.update") < StepIndex(tick.steps, "renderer.render")
    /\ \A o \in Range(objsToTest) : tick.laidOut[o] = widgets[o].look

\* C21: the reticle of a controller is repositioned only by the per-tick
\* update; in a tick where controller i's ray produced the hit, reticle i is
\* set to the point where that ray meets the hit object and the reticle of the
\* other controller is left unchanged.
C21_ReticleOwnRay ==
  [][ /\ reticle' # reticle => last'.op = "update"
      /\ \A i \in {0, 1} :
           (last'.op = "update" /\ presenting /\ tick'.hit # NoHit
              /\ tick'.ray = (IF i = 0 THEN "c0" ELSE "c1"))
           => /\ reticle'[i] = ctrlRay[i][tick'.hit.object]
              /\ reticle'[1 - i] = reticle[1 - i]
      /\ (last'.op = "update" /\ tick'.hit = NoHit) => reticle' = reticle ]_vars

\* Controller 1 produced the hit of the tick while the reticle of controller 0
\* rests elsewhere from an earlier tick.
C21_Witness ==
  /\ last.op = "update" /\ presenting
  /\ tick.ray = "c1" /\ tick.hit # NoHit
  /\ reticle[1] = tick.hit.distance
  /\ reticle[0] # 0 /\ reticle[0] # reticle[1]

\* The steps in which a timer callback delivers external status to a widget
\* (updateButtonState, updateFromServer, setValue).
StatusDeliveries == {"demoInterval", "pollTimer", "buttonStatePoll"}

\* C22: after ThreeSceneManager.dispose() has returned, all polling and timers
\* that deliver external status are stopped: no later timer callback calls
\* updateButtonState, updateFromServer or setValue on a widget.
C22_TeardownStopsStatus ==
  [][disposed => last'.op \notin StatusDeliveries]_vars

\* The tick of the last step dispatched "selected" to object o.
Clicked(o, t) == \E i \in 1..Len(t.log) : t.log[i] = [obj |-> o, state |-> "selected"]

\* C23: a click on the server-driven ToggleSwitch (setState("selected")) only
\* invokes the callback: the click itself leaves value and loading unchanged,
\* and they change only through updateFromServer (called by the status source,
\* or by the bound action of the callback, which the app wires to
\* updateFromServer(-2)).
C23_ClickOnlyCallsBack ==
  [][\A o \in ServerToggles :
       LET clicked == last'.op = "update" /\ Clicked(o, tick')
           same == /\ widgets'[o].value = widgets[o].value
                   /\ widgets'[o].isLoading = widgets[o].isLoading
       IN /\ clicked => tick'.clicks = 1
          /\ (clicked /\ tick'.fires = 0) => same
          /\ (clicked /\ tick'.fires > 0) =>
               widgets'[o] = UpdateFromServerW(World, o, -2).widgets[o]
          /\ ~same => \/ last'.op = "updateFromServer"
                      \/ clicked /\ tick'.fires > 0]_vars

\* The switch shows true, it is clicked, and the callback's bound action is
\* dropped by its debounce: the click changed nothing.
C23_Witness ==
  /\ last.op = "update" /\ Clicked("toggleSwitch", tick)
  /\ tick.clicks = 1 /\ tick.fires = 0
  /\ widgets["toggleSwitch"].value /\ ~widgets["toggleSwitch"].isLoading

\* C24: updateFromServer(code): -2 sets value false and loading false; -1 sets
\* loading true and leaves value unchanged; 0, 1 and 2 set value true and
\* loading false; any other code leaves both unchanged; and after any sequence
\* of calls the loading indicator is visible exactly when the last recognised
\* code was -1.
C24_ServerCodeMapping ==
  \A o \in ServerToggles :
    /\ widgets[o].indicator = (lastCode = -1)
    /\ widgets[o].isLoading = (lastCode = -1)
    /\ \A code \in ServerCodes :
         LET w == UpdateFromServerW(World, o, code).widgets[o] IN
         /\ code = -2 => ~w.value /\ ~w.isLoading
         /\ code = -1 => w.value = widgets[o].value /\ w.isLoading
         /\ code \in {0, 1, 2} => w.value /\ ~w.isLoading
         /\ code \notin {-2, -1, 0, 1, 2} =>
              w.value = widgets[o].value /\ w.isLoading = widgets[o].isLoading

\* After updateFromServer(-1) on a switch that shows true: the indicator is
\* visible and the value is still true.
C24_Witness ==
  /\ last.op = "updateFromServer" /\ last.obj = "toggleSwitch"
  /\ lastCode = -1
  /\ widgets["toggleSwitch"].indicator /\ widgets["toggleSwitch"].value

\* The tick of the last step dispatched "idle" to object o.
Idled(o, t) == \E i \in 1..Len(t.log) : t.log[i] = [obj |-> o, state |-> "idle"]

\* C25: from the "selected" dispatch that flips the value of the self-toggling
\* switch until its 200 ms timer fires (isToggling), further "selected"
\* dispatches are ignored and "idle" dispatches do not change the tracked
\* state; the value is flipped and the callback invoked exactly once per window.
C25_TogglingWindow ==
  [][\A o \in SelfToggles :
       LET w == widgets[o]
           w2 == widgets'[o]
           ticked == last'.op = "update"
       IN /\ w.isToggling <=> w.timers = 1
          /\ w.timers \in {0, 1}
          /\ (w.isToggling /\ ticked /\ Clicked(o, tick')) => w2 = w /\ tick'.clicks = 0
          /\ (w.isToggling /\ ticked /\ Idled(o, tick')) => w2.currentState = w.currentState
          /\ (w.isToggling /\ ~w2.isToggling) => last' = [op |-> "settle", obj |-> o]
          /\ (w.isToggling /\ w2.isToggling) => w2.value = w.value
          /\ (~w.isToggling /\ w2.isToggling) =>
               ticked /\ Clicked(o, tick') /\ w2.value = ~w.value /\ tick'.clicks = 1
          /\ w2.value # w.value => ~w.isToggling /\ w2.isToggling]_vars

\* Inside the window a tick dispatched "selected" to the switch and nothing happened.
C25_Witness ==
  /\ widgets["selfToggle"].isToggling
  /\ last.op = "update" /\ Clicked("selfToggle", tick)
  /\ tick.clicks = 0 /\ widgets["selfToggle"].timers = 1

\* The fixed cycle the value has to follow.
DcCycle == [off |-> "on", on |-> "pause", pause |-> "off"]

\* C26: each toggle of the DataCollectionButton advances the value in the
\* cycle off -> on -> pause -> off and invokes the callback with the new value;
\* setValue(b) sets the value to on or off (never pause) without invoking the
\* callback; the value is always one of on, off, pause.
C26_ValueCycle ==
  [][/\ dcButton.value \in {"on", "off", "pause"}
     /\ last'.op = "dcToggle" =>
          /\ dcButton'.value = DcCycle[dcButton.value]
          /\ dcButton'.called = dcButton'.value
     /\ last'.op = "pollTimer" =>
          /\ dcButton'.value = (IF polling'.isCollecting THEN "on" ELSE "off")
          /\ dcButton'.called = "none"
     /\ last'.op = "dcSetState" =>
          /\ dcButton'.value = dcButton.value
          /\ dcButton'.called = "none"]_vars

\* The cycle has just closed: a toggle took the value from pause to off.
C26_Witness ==
  /\ last.op = "dcToggle"
  /\ dcButton.value = "off" /\ dcButton.called = "off"
  /\ polling.isCollecting

\* C27: startPolling keeps at most one pending poll timer; each firing flips
\* the collecting flag, pushes it to the button with setValue and re-arms the
\* timer; after the returned cleanup function has been called no further
\* firing occurs and the button receives no further setValue from polling.
C27_PollingTimer ==
  [][/\ Cardinality(polling.live) <= 1
     /\ polling.live \subseteq {polling.pollTimer}
     /\ last'.op = "pollTimer" =>
          /\ polling'.isCollecting = ~polling.isCollecting
          /\ dcButton'.value = (IF polling'.isCollecting THEN "on" ELSE "off")
          /\ Cardinality(polling'.live) = 1
          /\ polling'.live = {polling'.pollTimer}
     /\ polling.cleaned =>
          /\ last'.op # "pollTimer"
          /\ polling.live = {}
          /\ dcButton'.value = dcButton.value]_vars

\* The timer fired and was re-armed, then the cleanup function was called:
\* nothing is pending and the button keeps the value the last firing gave it.
C27_Witness ==
  /\ last.op = "cleanup" /\ polling.cleaned /\ polling.live = {}
  /\ polling.pollTimer # StartPolling.pollTimer
  /\ polling.isCollecting /\ dcButton.value = "on"

\* C28: button-state polling has at most one live interval timer: starting
\* while a timer is live clears the old one first, and after
\* stopButtonStatePolling the handle is null and no poll callback runs until
\* the next start.
C28_OneLiveInterval ==
  [][/\ Cardinality(intervals) <= 1
     /\ intervals = (IF buttonStatePollingTimer = 0 THEN {} ELSE {buttonStatePollingTimer})
     /\ last'.op = "startButtonStatePolling" =>
          /\ buttonStatePollingTimer' \notin intervals \cup {0}
          /\ intervals' = {buttonStatePollingTimer'}
     /\ last'.op \in {"stopButtonStatePolling", "dispose"} =>
          buttonStatePollingTimer' = 0 /\ intervals' = {}
     /\ buttonStatePollingTimer = 0 => last'.op # "buttonStatePoll"]_vars

\* Polling was started twice in a row and the poll callback of the second
\* interval has just run: the first interval is gone.
C28_Witness ==
  /\ last.op = "buttonStatePoll"
  /\ buttonStatePollingTimer \notin {0, NewTimer({})}
  /\ intervals = {buttonStatePollingTimer}
  /\ widgets["teleButton"].currentState = "active"

\* C29: every panel held in the panels map is in the scene and every panel
\* makeTextPanel added to the scene is reachable through the map under its key,
\* after any sequence of makeTextPanel (a repeated key included), updatePanelText
\* and removePanel; removePanel(key) returns true exactly when the key was
\* present and afterwards getPanel(key) is undefined; updatePanelText on an
\* unknown key returns false and changes nothing.
C29_PanelRegistry ==
  [][/\ \A k \in DOMAIN panels : panels[k] # 0 => panels[k] \in scene
     /\ \A n \in scene : \E k \in DOMAIN panels : panels[k] = n
     /\ last'.op = "removePanel" =>
          /\ ret' = (IF GetPanel(panels, last'.obj) # 0 THEN "true" ELSE "false")
          /\ GetPanel(panels', last'.obj) = 0
     /\ (last'.op = "updatePanelText" /\ GetPanel(panels, last'.obj) = 0) =>
          /\ ret' = "false"
          /\ UNCHANGED <<panels, scene, panelText>>]_vars

\* C30: the engagement flag is one boolean shared by the pointer, touch and
\* both controllers: it is true exactly when the most recent engagement event
\* from any source was a start and false when it was an end (so a select-end on
\* one controller clears it while the other controller is still held), and the
\* nearest-hit object is dispatched "selected" whichever source asserted it.
C30_SharedEngagementFlag ==
  [][/\ engage.by # "none" => selectState = engage.start
     /\ engage'.by # "none" => selectState' = engage'.start
     /\ (last'.op = "update" /\ tick'.hit # NoHit) =>
          (Clicked(tick'.hit.object, tick') <=> selectState)]_vars

\* Controller 1 was released while controller 0 is still held: the flag is
\* clear and the tick hovers the button controller 0 points at.
C30_Witness ==
  /\ presenting /\ "c0" \in engage.held /\ engage.by = "c1" /\ ~engage.start
  /\ ~selectState
  /\ last.op = "update" /\ tick.ray = "c0" /\ tick.hit # NoHit
  /\ ~Clicked(tick.hit.object, tick)

\* C31: getControllerCount() is fixed at construction: it is the number of
\* controller slots VRControls set up (one per index 0 and 1) and never
\* changes, whatever controllers attach or detach before or during a session;
\* so the gating on session start sees the same count every time.
C31_ControllerCountFixed ==
  [][/\ GetControllerCount = Cardinality({0, 1})
     /\ GetControllerCount' = GetControllerCount
     /\ last'.op \in {"connect", "disconnect"} => attached' # attached
     /\ last' = [op |-> "sessionstart", obj |-> "ThreeSceneManager"] =>
          endRequested' = (endRequested \/ GatingEndsSession(Cardinality({0, 1})))]_vars

\* A controller was detached during the session that started with one
\* controller connected: the count the gating reads is still two.
C31_Witness ==
  /\ presenting /\ last.op = "disconnect"
  /\ startCount = 1 /\ attached = {}
  /\ GetControllerCount = 2 /\ ~endRequested

StrictlyNearest(p) ==
  /\ mouse # <<>> /\ p \in Range(objsToTest) /\ mouse[1][p] > 0
  /\ \A o \in Range(objsToTest) \ {p} : mouse[1][o] = 0 \/ mouse[1][o] > mouse[1][p]

\* C33: hit testing ignores the isUI flag but dispatch does not: a registered
\* object without isUI can be the nearest hit; in that tick its handler is not
\* called and every registered UI object is dispatched "idle", even one the
\* same ray meets farther along.
C33_PlainObjectShadows ==
  [][\A p \in PlainObjects :
       (last'.op = "update" /\ ~presenting /\ StrictlyNearest(p)) =>
         /\ tick'.hit.object = p
         /\ \A i \in 1..Len(tick'.log) :
              tick'.log[i].obj # p /\ tick'.log[i].state = "idle"
         /\ Len(tick'.log) = Cardinality({i \in 1..Len(objsToTest) : IsUI(objsToTest[i])})
         /\ tick'.clicks = 0]_vars

\* The plain object is the hit while the ray also meets the button behind it,
\* the engagement flag is set, and the button got "idle".
C33_Witness ==
  /\ last.op = "update" /\ tick.hit.object = "plainMesh" /\ selectState
  /\ "teleButton" \in Range(objsToTest)
  /\ mouse # <<>> /\ mouse[1]["teleButton"] > mouse[1]["plainMesh"]
  /\ Idled("teleButton", tick)

\* C34: with only the outer panel of the DataCollectionButton registered, the
\* per-tick dispatch reaches only the panel's no-op handler: no tick or input
\* invokes the inner button's handler (no look change, no 100 ms timer, no
\* callback), and the value changes only when the status poll calls setValue.
C34_PanelOnlyDispatch ==
  [][/\ last'.op # "pollTimer" => dcButton' = dcButton
     /\ last'.op = "pollTimer" =>
          dcButton'.value = (IF polling'.isCollecting THEN "on" ELSE "off")
     /\ dcButton'.timers = 0
     /\ dcButton'.called = "none"
     /\ (last'.op = "update" /\ tick'.hit.object \in Panels) =>
          /\ widgets'[tick'.hit.object] = widgets[tick'.hit.object]
          /\ tick'.clicks = 0]_vars

\* A tick dispatched "selected" to the panel after the poll had set the value.
C34_Witness ==
  /\ last.op = "update" /\ tick.hit.object = "dcPanel" /\ selectState
  /\ \E i \in 1..Len(tick.log) : tick.log[i] = [obj |-> "dcPanel", state |-> "selected"]
  /\ dcButton.value = "on" /\ dcButton.timers = 0

\* C35: if the wrapped function throws, the debounce guard still enters its
\* cooldown: the throwing invocation closes the guard and schedules the timer,
\* invocations during the window are dropped, and the timer reopens the guard,
\* so the guard is closed exactly while a cooldown timer is pending.
C35_ThrowStillCoolsDown ==
  [][/\ (last'.op = "invoke" /\ db'.thrown) =>
          /\ ready["generic"] /\ ~ready'["generic"]
          /\ cooldown'["generic"] = cooldown["generic"] + 1
          /\ db'.ran
     /\ (last'.op = "invoke" /\ ~ready["generic"]) =>
          /\ ~db'.ran /\ ~db'.thrown
          /\ ready' = ready /\ cooldown' = cooldown
     /\ last'.op = "cooldown" => ready'["generic"]
     /\ ready'["generic"] <=> cooldown'["generic"] = 0]_vars

\* The last invocation threw, its cooldown timer has fired, and the guard is
\* ready again.
C35_Witness ==
  /\ last.op = "cooldown" /\ db.thrown /\ db.ran
  /\ ready["generic"] /\ cooldown["generic"] = 0

====
